---------------------------- MODULE Spec2Model ----------------------------
(***************************************************************************)
(* A model of agmlego/eink_clock: src/clock.py and src/cal_clock.py.       *)
(*                                                                         *)
(* Three specifications share this module:                                 *)
(*   Spec       the life of the process: the entry point, the choice of    *)
(*              the backend, the construction of the clock object, the     *)
(*              draw, display() and the persisted RunningAverage, over     *)
(*              several runs of the program against the same update.pkl;   *)
(*   SpecCal    render_month and Clock.draw_calendar over a range of       *)
(*              current dates;                                             *)
(*   SpecPlane  the conversion of the RGB canvas into the two 1-bit        *)
(*              planes in EPD_Clock.display.                               *)
(***************************************************************************)
EXTENDS Integers, Sequences, FiniteSets

(***************************************************************************)
(* Bounds of the model.                                                    *)
(***************************************************************************)
\* number of runs of the program that are followed
MaxRuns == 3
\* the current dates range over NumYears years, starting with 2018
NumYears == 9
\* the largest canvas width and height, in pixels
MaxW == 2
MaxH == 2

(***************************************************************************)
(* Python floats: IEEE 754 binary64, non-negative and finite.  A float is  *)
(* [m, e] with value m * 2^e.  The mantissa m is a natural number of       *)
(* exactly MantBits bits, held as MantLimbs limbs of LimbBits bits, least  *)
(* significant first (TLC's integers have 32 bits); zero is FloatZero.     *)
(* Every operation rounds its exact result to nearest, ties to even, as    *)
(* the hardware does.  The exponents met here are far from the subnormal   *)
(* and the overflow ranges.                                                *)
(***************************************************************************)
MantBits == 53
LimbBits == 24
MantLimbs == 3
LimbBase == 2^LimbBits

\* limb i of w, 0 outside of w
Limb(w, i) == IF i >= 1 /\ i <= Len(w) THEN w[i] ELSE 0

\* the number of bits of a limb x
LimbLen(x) == IF x = 0 THEN 0 ELSE CHOOSE n \in 1..LimbBits : 2^(n-1) <= x /\ x < 2^n

\* the number of bits of w
WideLen(w) ==
    LET nz == {i \in 1..Len(w) : w[i] # 0}
    IN  IF nz = {} THEN 0
        ELSE LET t == CHOOSE i \in nz : \A j \in nz : j <= i
             IN  LimbBits * (t - 1) + LimbLen(w[t])

\* bit i of w, bit 0 the least significant
WideBit(w, i) == (Limb(w, (i \div LimbBits) + 1) \div 2^(i % LimbBits)) % 2

\* w * 2^s
WideShl(w, s) ==
    LET q == s \div LimbBits
        r == s % LimbBits
    IN  [j \in 1..(Len(w) + q + 1) |->
            (Limb(w, j - q) % 2^(LimbBits - r)) * 2^r
              + (Limb(w, j - q - 1) \div 2^(LimbBits - r))]

\* w \div 2^s
WideShr(w, s) ==
    LET q == s \div LimbBits
        r == s % LimbBits
    IN  [j \in 1..Len(w) |->
            (Limb(w, j + q) \div 2^r) + (Limb(w, j + q + 1) % 2^r) * 2^(LimbBits - r)]

\* w % 2^s = 0
WideLowZero(w, s) ==
    LET q == s \div LimbBits
        r == s % LimbBits
    IN  /\ \A j \in 1..q : Limb(w, j) = 0
        /\ Limb(w, q + 1) % 2^r = 0

\* a + b
RECURSIVE AddAcc(_, _, _, _, _)
AddAcc(a, b, i, len, carry) ==
    IF i > len THEN <<carry>>
    ELSE LET t == Limb(a, i) + Limb(b, i) + carry
         IN  <<t % LimbBase>> \o AddAcc(a, b, i + 1, len, t \div LimbBase)

WideAdd(a, b) == AddAcc(a, b, 1, IF Len(a) >= Len(b) THEN Len(a) ELSE Len(b), 0)

\* a * k, for a natural k < 64
RECURSIVE MulAcc(_, _, _, _)
MulAcc(a, k, i, carry) ==
    IF i > Len(a) THEN <<carry>>
    ELSE LET t == a[i] * k + carry
         IN  <<t % LimbBase>> \o MulAcc(a, k, i + 1, t \div LimbBase)

WideMulSmall(a, k) == MulAcc(a, k, 1, 0)

\* the quotient and the remainder of a by k, 0 < k < 64
RECURSIVE DivAcc(_, _, _, _)
DivAcc(a, k, i, rem) ==
    IF i = 0 THEN [q |-> <<>>, r |-> rem]
    ELSE LET cur  == rem * LimbBase + a[i]
             rest == DivAcc(a, k, i - 1, cur % k)
         IN  [q |-> rest.q \o <<cur \div k>>, r |-> rest.r]

WideDivSmall(a, k) == DivAcc(a, k, Len(a), 0)

\* the mantissa of w, a number of at most MantBits bits
Mantissa(w) == [j \in 1..MantLimbs |-> Limb(w, j)]

FloatZero == [m |-> Mantissa(<<>>), e |-> 0]

\* w * 2^e (plus a non-zero rest below the last bit when sticky), rounded
FloatRound(w, e, sticky) ==
    LET L == WideLen(w)
    IN  IF L = 0 THEN FloatZero
        ELSE IF L <= MantBits
        THEN [m |-> Mantissa(WideShl(w, MantBits - L)), e |-> e - (MantBits - L)]
        ELSE LET s     == L - MantBits
                 keep  == WideShr(w, s)
                 guard == WideBit(w, s - 1)
                 rest  == sticky \/ ~WideLowZero(w, s - 1)
                 up    == guard = 1 /\ (rest \/ WideBit(keep, 0) = 1)
                 r     == IF up THEN WideAdd(keep, <<1>>) ELSE keep
             IN  IF WideLen(r) > MantBits
                 THEN [m |-> Mantissa(WideShr(r, 1)), e |-> e + s + 1]
                 ELSE [m |-> Mantissa(r), e |-> e + s]

\* float * int
FloatMulInt(f, k) == FloatRound(WideMulSmall(f.m, k), f.e, FALSE)

\* float + float
FloatAdd(f, g) ==
    LET e == IF f.e <= g.e THEN f.e ELSE g.e
    IN  IF f = FloatZero THEN g
        ELSE IF g = FloatZero THEN f
        ELSE FloatRound(WideAdd(WideShl(f.m, f.e - e), WideShl(g.m, g.e - e)), e, FALSE)

\* float / int, for an int 0 < k < 64
FloatDivInt(f, k) ==
    LET guard == 8
        d     == WideDivSmall(WideShl(f.m, guard), k)
    IN  FloatRound(d.q, f.e - guard, d.r # 0)

\* the float whose hexadecimal form is 0x1.<frac>p<exp>, frac of 13 digits
HexLimb(hs) ==
    hs[1] * 1048576 + hs[2] * 65536 + hs[3] * 4096 + hs[4] * 256 + hs[5] * 16 + hs[6]

FloatHex(frac, exp) ==
    [m |-> <<HexLimb(SubSeq(frac, 8, 13)), HexLimb(SubSeq(frac, 2, 7)), 16 + frac[1]>>,
     e |-> exp - (MantBits - 1)]

(***************************************************************************)
(* class RunningAverage.  average starts as the int 0 and is a float from  *)
(* the first update on; both zeros are FloatZero here.  cls is the module  *)
(* that pickle records for the object's class: "__main__" when the class   *)
(* was defined by running clock.py, "clock" when clock was imported.       *)
(***************************************************************************)
RA_New(cls) == [cls |-> cls, average |-> FloatZero, n |-> 0]

\* no object yet
Unset == [cls |-> "none", average |-> FloatZero, n |-> 0]

\* a bug to compare with: the old average weighted by n instead of n-1
RA_Call_Mut(self, new_value) ==
    LET n1 == self.n + 1
    IN  [self EXCEPT !.n = n1,
                     !.average = FloatDivInt(FloatAdd(FloatMulInt(self.average, n1),
                                                      new_value), n1)]

\* __call__: self.n += 1; self.average = (self.average*(self.n-1) + new_value) / self.n
RA_Call(self, new_value) ==
    LET n1 == self.n + 1
    IN  [self EXCEPT !.n = n1,
                     !.average = FloatDivInt(FloatAdd(FloatMulInt(self.average, n1 - 1),
                                                      new_value), n1)]

\* the object after the updates values[1], values[2], ...
RECURSIVE RA_Feed(_, _)
RA_Feed(ra0, values) ==
    IF values = <<>> THEN ra0
    ELSE RA_Call(RA_Feed(ra0, SubSeq(values, 1, Len(values) - 1)), values[Len(values)])

\* elapsed times of epd.display: 10.0, 20.0, 30.0, 0.1, 0.2 and 0.3 seconds
F10 == FloatHex(<<4, 0, 0, 0, 0, 0, 0, 0, 0, 0, 0, 0, 0>>, 3)
F20 == FloatHex(<<4, 0, 0, 0, 0, 0, 0, 0, 0, 0, 0, 0, 0>>, 4)
F30 == FloatHex(<<14, 0, 0, 0, 0, 0, 0, 0, 0, 0, 0, 0, 0>>, 4)
F01 == FloatHex(<<9, 9, 9, 9, 9, 9, 9, 9, 9, 9, 9, 9, 10>>, -4)
F02 == FloatHex(<<9, 9, 9, 9, 9, 9, 9, 9, 9, 9, 9, 9, 10>>, -3)
F03 == FloatHex(<<3, 3, 3, 3, 3, 3, 3, 3, 3, 3, 3, 3, 3>>, -2)

Elapsed == {F10, F20, F30, F01, F02, F03}

(***************************************************************************)
(* pickle.dump and pickle.load of a RunningAverage: the class by module    *)
(* and name, n as an int, average as the 8 bytes of the binary64: the      *)
(* biased exponent and the 52 bits below the leading bit of the mantissa.  *)
(***************************************************************************)
ExpBias == 1075

PickleFloat(f) ==
    IF f = FloatZero THEN [exp |-> 0, frac |-> f.m]
    ELSE [exp  |-> f.e + ExpBias,
          frac |-> [f.m EXCEPT ![MantLimbs] = @ - 2^(MantBits - 1 - LimbBits * (MantLimbs - 1))]]

\* a bug to compare with: the exponent read one too high
UnpickleFloat_Mut(p) ==
    IF p.exp = 0 THEN FloatZero
    ELSE [m |-> [p.frac EXCEPT ![MantLimbs] = @ + 2^(MantBits - 1 - LimbBits * (MantLimbs - 1))],
          e |-> p.exp - ExpBias + 1]

UnpickleFloat(p) ==
    IF p.exp = 0 THEN FloatZero
    ELSE [m |-> [p.frac EXCEPT ![MantLimbs] = @ + 2^(MantBits - 1 - LimbBits * (MantLimbs - 1))],
          e |-> p.exp - ExpBias]

PickleDump(ra) ==
    [kind |-> "pickle", cls |-> ra.cls, average |-> PickleFloat(ra.average), n |-> ra.n]

PickleLoad(f) == [cls |-> f.cls, average |-> UnpickleFloat(f.average), n |-> f.n]

\* update.pkl when it holds no pickle
NoPickle(kind) == [kind |-> kind]

\* the module that running the entry point gives class RunningAverage
ClassModule(script) == IF script = "clock" THEN "__main__" ELSE "clock"

\* whether pickle finds the class: module clock can be imported by both entry
\* points, __main__.RunningAverage exists only when clock.py is the script
Loadable(cls, script) == cls = "clock" \/ script = "clock"

(***************************************************************************)
(* The process.  One run of clock.py or cal_clock.py is the statements of  *)
(* its __main__ block, of the constructor of the chosen class and of its   *)
(* display(), in program order.                                            *)
(***************************************************************************)
VARIABLES
    run,         \* runs of the program started so far
    pc,          \* the statement to execute next; "idle" between runs
    script,      \* "clock" (clock.py) or "cal" (cal_clock.py)
    module,      \* 'epd12in48b' in sys.modules
    hostMatch,   \* the hostname equals host.target of config.ini
    backend,     \* the class of eink: "none", "EPD" or "PIL"
    clear,       \* EPD_Clock's argument clear
    update_avg,  \* self.update_avg, Unset before the load
    file,        \* update.pkl
    trace,       \* the calls of this run, in order
    status,      \* the exit status of the run, -1 while it runs
    cause,       \* why the run ended
    fileAtLoad,  \* history: update.pkl as the load of this run found it
    fed,         \* history: the samples behind update_avg
    fileFed,     \* history: the samples behind update.pkl
    failStatus,  \* history: the last exit status by cause of failure
    \* Clock.draw_calendar (SpecCal)
    today,       \* arrow.now(): the current date
    months,      \* the list months of draw_calendar
    grids,       \* render_month(month) of each month, in the dict's order
    texts,       \* the calls of self.draw.text, in order
    \* EPD_Clock.display (SpecPlane)
    width,       \* self.width
    height,      \* self.height
    canvas,      \* self.canvas: the RGB value of every pixel
    redimage,    \* the plane redimage, "none" before display()
    blackimage   \* the plane blackimage, "none" before display()

calVars == <<today, months, grids, texts>>

planeVars == <<width, height, canvas, redimage, blackimage>>

procVars == <<run, pc, script, module, hostMatch, backend, clear, update_avg, file,
              trace, status, cause, fileAtLoad, fed, fileFed, failStatus>>

\* a bug to compare with: the state file written before the device sleeps
EPD_DisplaySteps_Mut == <<"epd_display", "update_avg", "dump", "epd_sleep">>

\* EPD_Clock.display, lines 252-259
EPD_DisplaySteps == <<"epd_display", "update_avg", "epd_sleep", "dump">>

\* EPD_Clock.__init__, lines 221-233
EPD_InitSteps == <<"epd_Init", "epd_clear", "load", "clock_init">>

\* PIL_Clock.__init__ and PIL_Clock.display
PIL_InitSteps == <<"clock_init">>
PIL_DisplaySteps == <<"show">>

\* a bug to compare with: eink.display() called before the draw
Program_Mut(b) ==
    <<"fileConfig", "select">>
      \o (IF b = "EPD" THEN EPD_InitSteps ELSE PIL_InitSteps)
      \o (IF b = "EPD" THEN EPD_DisplaySteps ELSE PIL_DisplaySteps)
      \o <<"draw", "end">>

\* the __main__ block of clock.py and of cal_clock.py
Program(b) ==
    <<"fileConfig", "select">>
      \o (IF b = "EPD" THEN EPD_InitSteps ELSE PIL_InitSteps)
      \o <<"draw">>
      \o (IF b = "EPD" THEN EPD_DisplaySteps ELSE PIL_DisplaySteps)
      \o <<"end">>

\* the statement after label in the program of backend b
After(b, label) ==
    LET p == Program(b)
        i == CHOOSE j \in 1..Len(p) : p[j] = label
    IN  p[i + 1]

\* the exit status of the interpreter: 1 after an uncaught exception
ExitStatus(outcome) == IF outcome = "ok" THEN 0 ELSE 1

\* a bug to compare with: the host checked as well
SelectBackend_Mut(mod, host) == IF mod /\ host THEN "EPD" ELSE "PIL"

\* if 'epd12in48b' in sys.modules: EPD_Clock(config) else: PIL_Clock(config)
SelectBackend(mod, host) == IF mod THEN "EPD" ELSE "PIL"

\* no process yet, update.pkl missing
ProcInit ==
    /\ run = 0
    /\ pc = "idle"
    /\ script = "clock"
    /\ module = FALSE
    /\ hostMatch = FALSE
    /\ backend = "none"
    /\ clear = FALSE
    /\ update_avg = Unset
    /\ file = NoPickle("missing")
    /\ trace = <<>>
    /\ status = -1
    /\ cause = "none"
    /\ fileAtLoad = "none"
    /\ fed = <<>>
    /\ fileFed = <<>>
    /\ failStatus = [config |-> -1, device |-> -1]

\* no calendar drawn
CalNone ==
    /\ today = [year |-> 0, month |-> 0, day |-> 0]
    /\ months = <<>>
    /\ grids = <<>>
    /\ texts = <<>>

\* no canvas
PlaneNone ==
    /\ width = 0
    /\ height = 0
    /\ canvas = <<>>
    /\ redimage = <<>>
    /\ blackimage = <<>>

Init == ProcInit /\ CalNone /\ PlaneNone

\* the uncaught exception of kind why ends the run
Raise(why) ==
    /\ pc' = "idle"
    /\ status' = ExitStatus(why)
    /\ cause' = why
    /\ failStatus' = IF why \in DOMAIN failStatus
                     THEN [failStatus EXCEPT ![why] = ExitStatus(why)]
                     ELSE failStatus

Go(label) ==
    /\ pc' = After(backend, label)
    /\ UNCHANGED <<status, cause, failStatus>>

\* the program is started: the imports at the top of clock.py, get_config()
Start ==
    /\ pc = "idle"
    /\ run < MaxRuns
    /\ run' = run + 1
    /\ script' \in {"clock", "cal"}
    /\ module' \in BOOLEAN
    /\ hostMatch' \in BOOLEAN
    /\ pc' = "fileConfig"
    /\ backend' = "none"
    /\ clear' = FALSE
    /\ update_avg' = Unset
    /\ trace' = <<>>
    /\ status' = -1
    /\ cause' = "none"
    /\ fileAtLoad' = "none"
    /\ fed' = <<>>
    /\ UNCHANGED <<file, fileFed, failStatus>>
    /\ UNCHANGED <<calVars, planeVars>>

\* logging.config.fileConfig(config): raises when config.ini lacks its sections
FileConfig ==
    /\ pc = "fileConfig"
    /\ \/ /\ pc' = "select"
          /\ UNCHANGED <<status, cause, failStatus>>
       \/ Raise("config")
    /\ UNCHANGED <<run, script, module, hostMatch, backend, clear, update_avg, file,
                   trace, fileAtLoad, fed, fileFed>>
    /\ UNCHANGED <<calVars, planeVars>>

\* the choice of the class, lines 308-313; clear is the constructor's keyword
\* argument (the entry points pass the default False)
Select ==
    /\ pc = "select"
    /\ backend' = SelectBackend(module, hostMatch)
    /\ trace' = trace \o (IF backend' = "PIL" THEN <<"select", "warning">> ELSE <<"select">>)
    /\ clear' \in BOOLEAN
    /\ pc' = After(backend', "select")
    /\ UNCHANGED <<run, script, module, hostMatch, update_avg, file, status, cause,
                   fileAtLoad, fed, fileFed, failStatus>>
    /\ UNCHANGED <<calVars, planeVars>>

\* self.epd = epd12in48b.EPD(); self.epd.Init(): raises when the device fails
EpdInit ==
    /\ pc = "epd_Init"
    /\ \/ /\ trace' = Append(trace, "epd.Init")
          /\ Go("epd_Init")
       \/ /\ trace' = Append(trace, "epd.Init")
          /\ Raise("device")
    /\ UNCHANGED <<run, script, module, hostMatch, backend, clear, update_avg, file,
                   fileAtLoad, fed, fileFed>>
    /\ UNCHANGED <<calVars, planeVars>>

\* if clear: self.epd.clear()
EpdClear ==
    /\ pc = "epd_clear"
    /\ trace' = IF clear THEN Append(trace, "epd.clear") ELSE trace
    /\ Go("epd_clear")
    /\ UNCHANGED <<run, script, module, hostMatch, backend, clear, update_avg, file,
                   fileAtLoad, fed, fileFed>>
    /\ UNCHANGED <<calVars, planeVars>>

\* try: pickle.load(open('update.pkl', 'rb')) except FileNotFoundError: RunningAverage()
Load ==
    /\ pc = "load"
    /\ fileAtLoad' = file.kind
    /\ trace' = Append(trace, "load")
    /\ \/ /\ file.kind = "missing"
          /\ update_avg' = RA_New(ClassModule(script))
          /\ fed' = <<>>
          /\ Go("load")
       \/ /\ file.kind = "pickle"
          /\ Loadable(file.cls, script)
          /\ update_avg' = PickleLoad(file)
          /\ fed' = fileFed
          /\ Go("load")
       \/ /\ \/ file.kind \in {"unreadable", "corrupt"}
             \/ file.kind = "pickle" /\ ~Loadable(file.cls, script)
          /\ Raise("load")
          /\ UNCHANGED <<update_avg, fed>>
    /\ UNCHANGED <<run, script, module, hostMatch, backend, clear, file, fileFed>>
    /\ UNCHANGED <<calVars, planeVars>>

\* Clock.__init__: config.get('host', 'erase'), the size, the fonts, the canvas;
\* a missing key, an unparseable size or an unloadable font raises
ClockInit ==
    /\ pc = "clock_init"
    /\ \/ Go("clock_init")
       \/ Raise("config")
    /\ UNCHANGED <<run, script, module, hostMatch, backend, clear, update_avg, file,
                   trace, fileAtLoad, fed, fileFed>>
    /\ UNCHANGED <<calVars, planeVars>>

\* eink.draw_time() or eink.draw_calendar(); draw_time raises when the erase
\* offset of config.ini cannot be dehumanized
Draw ==
    /\ pc = "draw"
    /\ trace' = Append(trace, "draw")
    /\ \/ Go("draw")
       \/ /\ script = "clock"
          /\ Raise("config")
    /\ UNCHANGED <<run, script, module, hostMatch, backend, clear, update_avg, file,
                   fileAtLoad, fed, fileFed>>
    /\ UNCHANGED <<calVars, planeVars>>

\* self.epd.display(redimage, blackimage)
EpdDisplay ==
    /\ pc = "epd_display"
    /\ trace' = Append(trace, "epd.display")
    /\ Go("epd_display")
    /\ UNCHANGED <<run, script, module, hostMatch, backend, clear, update_avg, file,
                   fileAtLoad, fed, fileFed>>
    /\ UNCHANGED <<calVars, planeVars>>

\* self.update_avg(elapsed)
UpdateAvg ==
    /\ pc = "update_avg"
    /\ \E elapsed \in Elapsed :
          /\ update_avg' = RA_Call(update_avg, elapsed)
          /\ fed' = Append(fed, elapsed)
    /\ trace' = Append(trace, "update_avg")
    /\ Go("update_avg")
    /\ UNCHANGED <<run, script, module, hostMatch, backend, clear, file, fileAtLoad,
                   fileFed>>
    /\ UNCHANGED <<calVars, planeVars>>

\* self.epd.EPD_Sleep()
EpdSleep ==
    /\ pc = "epd_sleep"
    /\ trace' = Append(trace, "epd.EPD_Sleep")
    /\ Go("epd_sleep")
    /\ UNCHANGED <<run, script, module, hostMatch, backend, clear, update_avg, file,
                   fileAtLoad, fed, fileFed>>
    /\ UNCHANGED <<calVars, planeVars>>

\* pickle.dump(self.update_avg, open('update.pkl', 'wb')): open truncates the
\* file, an error while writing leaves it cut short
Dump ==
    /\ pc = "dump"
    /\ trace' = Append(trace, "dump")
    /\ \/ /\ file' = PickleDump(update_avg)
          /\ fileFed' = fed
          /\ Go("dump")
       \/ /\ file' = NoPickle("corrupt")
          /\ fileFed' = <<>>
          /\ Raise("write")
    /\ UNCHANGED <<run, script, module, hostMatch, backend, clear, update_avg,
                   fileAtLoad, fed>>
    /\ UNCHANGED <<calVars, planeVars>>

\* PIL_Clock.display: self.canvas.rotate(180).show()
Show ==
    /\ pc = "show"
    /\ trace' = Append(trace, "show")
    /\ Go("show")
    /\ UNCHANGED <<run, script, module, hostMatch, backend, clear, update_avg, file,
                   fileAtLoad, fed, fileFed>>
    /\ UNCHANGED <<calVars, planeVars>>

\* the end of the __main__ block
End ==
    /\ pc = "end"
    /\ pc' = "idle"
    /\ status' = ExitStatus("ok")
    /\ cause' = "ok"
    /\ UNCHANGED <<run, script, module, hostMatch, backend, clear, update_avg, file,
                   trace, fileAtLoad, fed, fileFed, failStatus>>
    /\ UNCHANGED <<calVars, planeVars>>

\* between two runs update.pkl is removed, damaged or made unreadable
Damage ==
    /\ pc = "idle"
    /\ run < MaxRuns
    /\ \E k \in {"missing", "unreadable", "corrupt"} :
          /\ file.kind # k
          /\ file' = NoPickle(k)
    /\ fileFed' = <<>>
    /\ UNCHANGED <<run, pc, script, module, hostMatch, backend, clear, update_avg,
                   trace, status, cause, fileAtLoad, fed, failStatus>>
    /\ UNCHANGED <<calVars, planeVars>>

Next ==
    \/ Start
    \/ FileConfig
    \/ Select
    \/ EpdInit
    \/ EpdClear
    \/ Load
    \/ ClockInit
    \/ Draw
    \/ EpdDisplay
    \/ UpdateAvg
    \/ EpdSleep
    \/ Dump
    \/ Show
    \/ End
    \/ Damage

vars == <<procVars, calVars, planeVars>>

Spec == Init /\ [][Next]_vars

(***************************************************************************)
(* The claims about the process.                                           *)
(***************************************************************************)
Has(ev) == \E i \in 1..Len(trace) : trace[i] = ev

Count(ev) == Cardinality({i \in 1..Len(trace) : trace[i] = ev})

\* the place of the first call ev of the run
Pos(ev) == CHOOSE i \in 1..Len(trace) : trace[i] = ev /\ \A j \in 1..(i - 1) : trace[j] # ev

\* the calls evs happen at most once each, and each only after the one before it
InOrder(evs) ==
    \A k \in 1..Len(evs) :
        Has(evs[k]) =>
            /\ Count(evs[k]) = 1
            /\ k > 1 => Has(evs[k - 1]) /\ Pos(evs[k - 1]) < Pos(evs[k])

Completed == pc = "idle" /\ status = 0

IsPrefix(a, b) == Len(a) <= Len(b) /\ a = SubSeq(b, 1, Len(a))

\* C2, as claimed: when the load finds update.pkl missing, unreadable or corrupt
\* the run does not end there, and goes on with the empty RunningAverage.
C2_Original ==
    fileAtLoad \in {"missing", "unreadable", "corrupt"} =>
        /\ cause # "load"
        /\ update_avg # Unset
        /\ pc = "clock_init" => update_avg.average = FloatZero /\ update_avg.n = 0

\* C3, as claimed: in display() the device display call, the update of the
\* average, the write of the state file and the device sleep happen in this
\* order, so the file is never written after the device sleeps.
C3_Original == InOrder(<<"epd.display", "update_avg", "dump", "epd.EPD_Sleep">>)

\* C3, amended: in display() the device display call, the update of the
\* average, the device sleep and the write of the state file happen in this
\* order: the file is written only after the device has been put to sleep.
C3_Amended == InOrder(<<"epd.display", "update_avg", "epd.EPD_Sleep", "dump">>)

\* a run on the panel that went through all of display()
C3_Witness == Completed /\ backend = "EPD" /\ Has("dump") /\ Has("epd.EPD_Sleep")

\* the exact sum of the floats vs, as a wide number times 2^e
RECURSIVE ExactSum(_)
ExactSum(vs) ==
    IF vs = <<>> THEN [w |-> <<0>>, e |-> 0]
    ELSE LET rest == ExactSum(SubSeq(vs, 1, Len(vs) - 1))
             v    == vs[Len(vs)]
             e    == IF rest.e <= v.e THEN rest.e ELSE v.e
         IN  IF Len(vs) = 1 THEN [w |-> v.m, e |-> v.e]
             ELSE [w |-> WideAdd(WideShl(rest.w, rest.e - e), WideShl(v.m, v.e - e)),
                   e |-> e]

\* the float nearest to the arithmetic mean of vs
RoundedMean(vs) ==
    LET sum == ExactSum(vs)
        d   == WideDivSmall(WideShl(sum.w, 8), Len(vs))
    IN  FloatRound(d.q, sum.e - 8, d.r # 0)

Orders(n) == {f \in [1..n -> 1..n] : \A i, j \in 1..n : f[i] = f[j] => i = j}

Permuted(vs, f) == [i \in 1..Len(vs) |-> vs[f[i]]]

IsPermutationOf(vs, ws) ==
    Len(vs) = Len(ws) /\ \E f \in Orders(Len(ws)) : vs = Permuted(ws, f)

\* C5, as claimed: count is the number of samples fed since the empty
\* RunningAverage, across saves and loads, average is their arithmetic mean
\* (the float nearest to it), and every order of the samples gives the same.
C5_Original ==
    (update_avg # Unset /\ fed # <<>>) =>
        /\ update_avg.n = Len(fed)
        /\ update_avg.average = RoundedMean(fed)
        /\ \A f \in Orders(Len(fed)) :
              RA_Feed(RA_New(update_avg.cls), Permuted(fed, f)) = update_avg

\* C5, amended: count is the number of samples fed since the empty
\* RunningAverage and average is the result of the incremental formula in
\* float arithmetic over them in the order fed, also when a save and a load
\* split the sequence over runs; the samples 10, 20, 30 in any order give
\* average 20 and count 3.  (The mean is not exact, nor the same for every
\* order, for all samples.)
C5_Amended ==
    /\ update_avg # Unset =>
          /\ update_avg.n = Len(fed)
          /\ update_avg = RA_Feed(RA_New(update_avg.cls), fed)
          /\ IsPermutationOf(fed, <<F10, F20, F30>>) =>
                update_avg.average = F20 /\ update_avg.n = 3
    /\ file.kind = "pickle" =>
          /\ file.n = Len(fileFed)
          /\ PickleLoad(file) = RA_Feed(RA_New(file.cls), fileFed)

\* 30, 10, 20 fed by three runs, each loading what the run before saved
C5_Witness ==
    /\ update_avg # Unset
    /\ fed = <<F30, F10, F20>>
    /\ run = 3
    /\ Completed

\* C8, as claimed: a run that fails on the initialization of the device ends
\* with a non-zero exit status other than that of a run that fails on a
\* configuration error.
C8_Original ==
    /\ (pc = "idle" /\ cause = "device") =>
          status # 0 /\ (failStatus.config # -1 => status # failStatus.config)
    /\ (pc = "idle" /\ cause = "config") =>
          status # 0 /\ (failStatus.device # -1 => status # failStatus.device)

\* the calls that draw or display
Rendering == {"draw", "epd.display", "show"}

\* the choice is made once, before any draw or display
SelectedOnce ==
    /\ backend = "none" => trace = <<>>
    /\ trace # <<>> => trace[1] = "select" /\ Count("select") = 1
    /\ (backend = "PIL") <=> Has("warning")

\* C9, as claimed: PIL_Clock is chosen, with a warning, when the driver module
\* is not loaded or the host is not the configured target, EPD_Clock otherwise;
\* the choice is made once, before any draw or display.
C9_Original ==
    /\ backend # "none" => ((backend = "PIL") <=> (~module \/ ~hostMatch))
    /\ SelectedOnce

\* C9, amended: PIL_Clock is chosen, with a warning, exactly when the driver
\* module is not loaded, EPD_Clock otherwise, whatever the host; the choice is
\* made once, before any draw or display.
C9_Amended ==
    /\ backend # "none" => ((backend = "PIL") <=> ~module)
    /\ SelectedOnce

\* the panel chosen and drawn for on a host that is not the target
C9_Witness == backend = "EPD" /\ ~hostMatch /\ Has("draw")

DeviceCalls == SelectSeq(trace, LAMBDA ev : ev \in {"epd.Init", "epd.clear", "epd.display",
                                                     "epd.EPD_Sleep"})

Lifecycle ==
    <<"epd.Init">> \o (IF clear THEN <<"epd.clear">> ELSE <<>>)
                   \o <<"epd.display", "epd.EPD_Sleep">>

\* C10: on the panel the device calls are Init, clear when the flag is set,
\* one display call after the draw, one sleep call, nothing before Init and
\* nothing after the sleep; a run that completes made them all, drew once,
\* read the state file once while constructing and wrote it once in display().
C10_Lifecycle ==
    backend = "EPD" =>
        /\ IsPrefix(DeviceCalls, Lifecycle)
        /\ Has("epd.display") => Has("draw") /\ Pos("draw") < Pos("epd.display")
        /\ Count("load") <= 1 /\ Count("dump") <= 1 /\ Count("draw") <= 1
        /\ Has("load") => ~Has("draw") \/ Pos("load") < Pos("draw")
        /\ Has("dump") => Has("epd.display") /\ Pos("epd.display") < Pos("dump")
        /\ Completed =>
              /\ DeviceCalls = Lifecycle
              /\ Count("load") = 1 /\ Count("dump") = 1 /\ Count("draw") = 1

\* a completed run on the panel that cleared it first
C10_Witness == Completed /\ backend = "EPD" /\ clear /\ Has("epd.clear")

(***************************************************************************)
(* Dates.  A date is [year, month, day]; arrow and datetime compute with   *)
(* the proleptic Gregorian ordinal, day 1 being 0001-01-01, a Monday.      *)
(***************************************************************************)
IsLeap(y) == (y % 4 = 0 /\ y % 100 # 0) \/ y % 400 = 0

DaysInMonth(y, m) ==
    IF m = 2 THEN (IF IsLeap(y) THEN 29 ELSE 28)
    ELSE IF m \in {4, 6, 9, 11} THEN 30 ELSE 31

DaysBeforeYear(y) == (y - 1) * 365 + ((y - 1) \div 4) - ((y - 1) \div 100) + ((y - 1) \div 400)

RECURSIVE DaysBeforeMonth(_, _)
DaysBeforeMonth(y, m) ==
    IF m = 1 THEN 0 ELSE DaysBeforeMonth(y, m - 1) + DaysInMonth(y, m - 1)

Date(y, m, d) == [year |-> y, month |-> m, day |-> d]

ToOrdinal(date) == DaysBeforeYear(date.year) + DaysBeforeMonth(date.year, date.month) + date.day

\* date.isoweekday(): 1 is Monday, 7 is Sunday
IsoWeekday(date) == LET r == ToOrdinal(date) % 7 IN IF r = 0 THEN 7 ELSE r

\* the Monday of ISO week 1 of year y: the week of the year's first Thursday
IsoWeek1Monday(y) ==
    LET firstday     == ToOrdinal(Date(y, 1, 1))
        firstweekday == (firstday + 6) % 7
        week1monday  == firstday - firstweekday
    IN  IF firstweekday > 3 THEN week1monday + 7 ELSE week1monday

\* date.isocalendar(): the ISO year, week and weekday
IsoCalendar(date) ==
    LET ord  == ToOrdinal(date)
        week == (ord - IsoWeek1Monday(date.year)) \div 7
        wday == ((ord - IsoWeek1Monday(date.year)) % 7) + 1
    IN  IF week < 0
        THEN [year |-> date.year - 1,
              week |-> ((ord - IsoWeek1Monday(date.year - 1)) \div 7) + 1,
              day  |-> wday]
        ELSE IF week >= 52 /\ ord >= IsoWeek1Monday(date.year + 1)
        THEN [year |-> date.year + 1, week |-> 1, day |-> wday]
        ELSE [year |-> date.year, week |-> week + 1, day |-> wday]

\* date.shift(months=k): the day is cut to the length of the month reached
ShiftMonths(date, k) ==
    LET total == date.year * 12 + (date.month - 1) + k
        y     == total \div 12
        m     == (total % 12) + 1
        dim   == DaysInMonth(y, m)
    IN  Date(y, m, IF date.day > dim THEN dim ELSE date.day)

\* date.replace(day=d)
ReplaceDay(date, d) == [date EXCEPT !.day = d]

\* date + timedelta(days=k), k >= 0
RECURSIVE AddDays(_, _)
AddDays(date, k) ==
    LET left == DaysInMonth(date.year, date.month) - date.day
    IN  IF k <= left THEN [date EXCEPT !.day = @ + k]
        ELSE AddDays(IF date.month < 12 THEN Date(date.year, date.month + 1, 1)
                     ELSE Date(date.year + 1, 1, 1),
                     k - left - 1)

\* arrow.Arrow.range('day', start, end): the days from start to end, both included
DayRange(start, end) ==
    [i \in 1..(ToOrdinal(end) - ToOrdinal(start) + 1) |-> AddDays(start, i - 1)]

(***************************************************************************)
(* Text: a str is the sequence of its characters.                          *)
(***************************************************************************)
DigitChars == <<"0", "1", "2", "3", "4", "5", "6", "7", "8", "9">>

\* str(n), n >= 0
RECURSIVE Digits(_)
Digits(n) == IF n < 10 THEN <<DigitChars[n + 1]>> ELSE Digits(n \div 10) \o <<DigitChars[(n % 10) + 1]>>

\* f'{n:02d}'
Format02d(n) == IF n < 10 THEN <<"0">> \o Digits(n) ELSE Digits(n)

\* f'{n:2d}'
Format2d(n) == IF n < 10 THEN <<" ">> \o Digits(n) ELSE Digits(n)

\* int(s), s of decimal digits
RECURSIVE ParseInt(_)
ParseInt(str) ==
    IF str = <<>> THEN 0
    ELSE ParseInt(SubSeq(str, 1, Len(str) - 1)) * 10
           + ((CHOOSE d \in 1..10 : DigitChars[d] = str[Len(str)]) - 1)

\* s.split(sep)
Split(str, sep) ==
    LET at     == {i \in 1..Len(str) : str[i] = sep}
        cut(k) == IF k = 0 THEN 0
                  ELSE IF k > Cardinality(at) THEN Len(str) + 1
                  ELSE CHOOSE i \in at : Cardinality({j \in at : j < i}) = k - 1
    IN  [k \in 1..(Cardinality(at) + 1) |-> SubSeq(str, cut(k - 1) + 1, cut(k) - 1)]

\* sep.join(parts)
RECURSIVE Join(_, _)
Join(parts, sep) ==
    IF parts = <<>> THEN <<>>
    ELSE IF Len(parts) = 1 THEN parts[1]
    ELSE parts[1] \o <<sep>> \o Join(Tail(parts), sep)

\* s.replace(old, new), for single characters
Replace(str, old, new) == [i \in 1..Len(str) |-> IF str[i] = old THEN new ELSE str[i]]

\* s.expandtabs(tabsize), from character i on, the column being col
RECURSIVE ExpandFrom(_, _, _, _)
ExpandFrom(str, tabsize, i, col) ==
    IF i > Len(str) THEN <<>>
    ELSE IF str[i] = "\t"
    THEN LET pad == tabsize - (col % tabsize)
         IN  [j \in 1..pad |-> " "] \o ExpandFrom(str, tabsize, i + 1, col + pad)
    ELSE <<str[i]>> \o ExpandFrom(str, tabsize, i + 1, col + 1)

ExpandTabs(str, tabsize) == ExpandFrom(str, tabsize, 1, 0)

\* date.format('W'): the ISO week date, such as 2024-W11-5
FormatW(date) ==
    LET iso == IsoCalendar(date)
    IN  Digits(iso.year) \o <<"-", "W">> \o Format02d(iso.week) \o <<"-">> \o Digits(iso.day)

MonthNames == <<"January", "February", "March", "April", "May", "June", "July",
                "August", "September", "October", "November", "December">>

\* date.format('MMMM YYYY'): the name of the month is one element
FormatMonthYear(date) == <<MonthNames[date.month], " ">> \o Digits(date.year)

\* calendar.weekheader(2)
WeekHeader2 == <<"M", "o", " ", "T", "u", " ", "W", "e", " ", "T", "h", " ",
                 "F", "r", " ", "S", "a", " ", "S", "u">>

(***************************************************************************)
(* iso_week_num, render_month and Clock.draw_calendar.                     *)
(***************************************************************************)
\* the cell '' of a week
Blank == 0
\* the number drawn for a blank cell
Sentinel == 99
TABSIZE == 3

\* a bug to compare with: the week counted from January 1
iso_week_num_Mut(date) == ((ToOrdinal(date) - ToOrdinal(Date(date.year, 1, 1))) \div 7) + 1

\* _, week, _ = date.format('W').split('-'); return int(week[1:])
iso_week_num(date) ==
    LET parts == Split(FormatW(date), "-")
    IN  IF Len(parts) = 3 THEN ParseInt(Tail(parts[2])) ELSE -1

\* a bug to compare with: the weekday taken as 0 for Monday while it is 1
WeekIndex_Mut(date) == (IsoWeekday(date) % 7) + 1

\* day.isoweekday()-1, as an index that starts with 1
WeekIndex(date) == IsoWeekday(date)

\* The dict month_d after the loop of render_month, as the sequence of its
\* items: a key is inserted, with seven blank cells, by the first day of its
\* week, and an item holds the days that were assigned to it.
render_month(month) ==
    LET range  == DayRange(month, ShiftMonths(month, 1))
        days   == SelectSeq(range, LAMBDA day : day.month = month.month)
        wk     == <<>> \o [i \in 1..Len(days) |-> iso_week_num(days[i])]
        firsts == {i \in 1..Len(days) : \A j \in 1..(i - 1) : wk[j] # wk[i]}
        nth(r) == CHOOSE i \in firsts : Cardinality({j \in firsts : j < i}) = r - 1
        cell(weeknum, c) ==
            LET put == {i \in 1..Len(days) : wk[i] = weeknum /\ WeekIndex(days[i]) = c}
            IN  IF put = {} THEN Blank
                ELSE days[CHOOSE i \in put : \A j \in put : j <= i].day
    IN  [r \in 1..Cardinality(firsts) |->
            [weeknum |-> wk[nth(r)], week |-> [c \in 1..7 |-> cell(wk[nth(r)], c)]]]

\* a call of self.draw.text
Text(str, fill, anchor) == [text |-> str, fill |-> fill, font |-> "small_font", anchor |-> anchor]

\* the week string of one item of month_d
WeekStr(item) ==
    LET week_str == [c \in 1..7 |-> IF item.week[c] # Blank THEN Format2d(item.week[c])
                                    ELSE Format2d(Sentinel)]
    IN  ExpandTabs(Digits(item.weeknum) \o <<"\t">> \o Join(week_str, "\t"), TABSIZE)

\* a bug to compare with: the month after next left out
CalendarMonths_Mut(now) ==
    <<ReplaceDay(ShiftMonths(now, -1), 1), ReplaceDay(now, 1),
      ReplaceDay(ShiftMonths(now, 1), 1), ReplaceDay(ShiftMonths(now, 1), 1)>>

\* the list months of draw_calendar
CalendarMonths(now) ==
    <<ReplaceDay(ShiftMonths(now, -1), 1), ReplaceDay(now, 1),
      ReplaceDay(ShiftMonths(now, 1), 1), ReplaceDay(ShiftMonths(now, 2), 1)>>

\* the texts drawn for one month: its header, the weekdays, the weeks
MonthTexts(month, month_d) ==
    <<Text(FormatMonthYear(month), "RED", "ma"),
      Text(ExpandTabs(<<"#", "\t">> \o Replace(WeekHeader2, " ", "\t"), TABSIZE), "RED", "ra")>>
      \o [r \in 1..Len(month_d) |-> Text(WeekStr(month_d[r]), "BLUE", "ra")]

\* the current dates: the first, the middle and the last days of every month
Years == 2018..(2017 + NumYears)

Dates ==
    {Date(y, m, d) : y \in Years, m \in 1..12, d \in {1, 15, 28, 29, 30, 31}}
      \cap {Date(y, m, d) : y \in Years, m \in 1..12, d \in 1..31}

ValidDates == {date \in Dates : date.day <= DaysInMonth(date.year, date.month)}

\* Clock.draw_calendar.  The places of the texts follow from the metrics of the
\* font and are left out; the order of the calls is kept.
DrawCalendar ==
    /\ months = <<>>
    /\ months' = CalendarMonths(today)
    /\ grids' = [i \in 1..4 |-> render_month(months'[i])]
    /\ texts' = MonthTexts(months'[1], grids'[1]) \o MonthTexts(months'[2], grids'[2])
                  \o MonthTexts(months'[3], grids'[3]) \o MonthTexts(months'[4], grids'[4])
    /\ UNCHANGED <<today, procVars, planeVars>>

InitCal ==
    /\ ProcInit
    /\ PlaneNone
    /\ today \in ValidDates
    /\ months = <<>>
    /\ grids = <<>>
    /\ texts = <<>>

NextCal == DrawCalendar

SpecCal == InitCal /\ [][NextCal]_vars

(***************************************************************************)
(* The calendar claims.                                                    *)
(***************************************************************************)
Drawn == months # <<>>

\* ISO 8601 by its definition: a week belongs to the year of its Thursday,
\* and is numbered by the place of that Thursday among the year's Thursdays
StdWeekYear(date) ==
    LET thu == ToOrdinal(date) - IsoWeekday(date) + 4
    IN  IF thu < ToOrdinal(Date(date.year, 1, 1)) THEN date.year - 1
        ELSE IF thu > ToOrdinal(Date(date.year, 12, 31)) THEN date.year + 1
        ELSE date.year

StdWeek(date) ==
    LET thu == ToOrdinal(date) - IsoWeekday(date) + 4
    IN  ((thu - ToOrdinal(Date(StdWeekYear(date), 1, 1))) \div 7) + 1

MonthDays(month) == {Date(month.year, month.month, d) : d \in 1..DaysInMonth(month.year, month.month)}

RowTexts == SelectSeq(texts, LAMBDA t : t.fill = "BLUE")

HeaderTexts == SelectSeq(texts, LAMBDA t : t.anchor = "ma")

AllRows == grids[1] \o grids[2] \o grids[3] \o grids[4]

\* the two characters that cell c of a week string takes
CellText(str, c) == SubSeq(str, TABSIZE * c + 1, TABSIZE * c + 2)

\* C1: a cell of a week row whose day is not of the month is drawn blank: no
\* row of the calendar shows the number 99.
C1_Original ==
    Drawn => \A k \in 1..Len(RowTexts) :
                 /\ Len(AllRows) = Len(RowTexts)
                 /\ \A c \in 1..7 :
                        /\ CellText(RowTexts[k].text, c) # <<"9", "9">>
                        /\ AllRows[k].week[c] = Blank
                             => CellText(RowTexts[k].text, c) = <<" ", " ">>

\* C6: the calendar has the four months from the one before the current month
\* to the one two after it, each with one header; a month has one row for each
\* ISO week that holds one of its days, a row has 7 cells, and each day of the
\* month is in exactly one cell: the one of its ISO week and of its weekday.
C6_Calendar ==
    Drawn =>
      /\ Len(months) = 4
      /\ Len(grids) = 4
      /\ \A i \in 1..4 :
            /\ months[i].day = 1
            /\ months[i].year * 12 + months[i].month = today.year * 12 + today.month + i - 2
      /\ HeaderTexts = [i \in 1..4 |-> Text(FormatMonthYear(months[i]), "RED", "ma")]
      /\ Len(RowTexts) = Len(AllRows)
      /\ \A i \in 1..4 :
            LET g == grids[i]
            IN  /\ {g[r].weeknum : r \in 1..Len(g)} = {StdWeek(d) : d \in MonthDays(months[i])}
                /\ Len(g) = Cardinality({StdWeek(d) : d \in MonthDays(months[i])})
                /\ \A r \in 1..Len(g) :
                      /\ Len(g[r].week) = 7
                      /\ \A c \in 1..7 :
                            g[r].week[c] \in {Blank} \cup {d.day : d \in MonthDays(months[i])}
                /\ \A d \in MonthDays(months[i]) :
                      /\ Cardinality({rc \in (1..Len(g)) \X (1..7) : g[rc[1]].week[rc[2]] = d.day}) = 1
                      /\ \E r \in 1..Len(g) :
                            /\ g[r].weeknum = StdWeek(d)
                            /\ g[r].week[IsoWeekday(d)] = d.day

\* a December whose day 31 is of ISO week 1 of the next year
WrapsToWeek1(month) == month.month = 12 /\ StdWeekYear(Date(month.year, 12, 31)) = month.year + 1

\* the first day put in a row
FirstDay(item) == CHOOSE d \in 1..31 : /\ \E c \in 1..7 : item.week[c] = d
                                       /\ \A c \in 1..7 : item.week[c] \in {Blank} \cup (d..31)

\* C6 is reached for a month of six weeks
C6_Witness ==
    /\ Drawn
    /\ \E i \in 1..4 : Len(grids[i]) = 6 /\ grids[i][1].week[7] = 1

\* C7: in a December whose day 31 is of ISO week 1, that day is in a row with
\* key 1, which is the last row of the month; the rows of every month are in the
\* order in which their weeks are first met, which is the order they are drawn
\* in.
C7_YearBoundary ==
    Drawn =>
      /\ Len(RowTexts) = Len(AllRows)
      /\ \A k \in 1..Len(AllRows) :
            LET key == Digits(AllRows[k].weeknum)
            IN  SubSeq(RowTexts[k].text, 1, Len(key) + 1) = key \o <<" ">>
      /\ \A i \in 1..4 :
            LET g == grids[i]
            IN  /\ \A r \in 1..(Len(g) - 1) : FirstDay(g[r]) < FirstDay(g[r + 1])
                /\ WrapsToWeek1(months[i]) =>
                      /\ g[Len(g)].weeknum = 1
                      /\ g[Len(g)].week[IsoWeekday(Date(months[i].year, 12, 31))] = 31
                      /\ \A d \in MonthDays(months[i]) :
                            StdWeekYear(d) = months[i].year + 1
                              => g[Len(g)].week[IsoWeekday(d)] = d.day
                      /\ \A r \in 1..(Len(g) - 1) :
                            /\ g[r].weeknum > 1
                            /\ \A c \in 1..7 : g[r].week[c] # 31

\* C7 is reached for a December whose last row, after the one of week 52, has key 1
C7_Witness ==
    /\ Drawn
    /\ \E i \in 1..4 :
          /\ WrapsToWeek1(months[i])
          /\ Len(grids[i]) >= 2
          /\ grids[i][Len(grids[i]) - 1].weeknum = 52
          /\ grids[i][Len(grids[i])].weeknum = 1

(***************************************************************************)
(* The canvas and the two images of EPD_Clock.display.  An image is the    *)
(* function from its places <<x, y>> to its pixels: a pixel of the RGB     *)
(* canvas is a record of three bands, a pixel of a band or of an image of  *)
(* mode 1 is a number, 0 or 255 in mode 1.                                 *)
(***************************************************************************)
WHITE == [R |-> 255, G |-> 255, B |-> 255]
RED == [R |-> 255, G |-> 0, B |-> 0]
BLUE == [R |-> 0, G |-> 0, B |-> 255]

Places(w, h) == (0..(w - 1)) \X (0..(h - 1))

\* Image.new('RGB', (width, height), color)
ImageNew(w, h, color) == [p \in Places(w, h) |-> color]

\* image.getchannel(channel)
GetChannel(image, channel) == [p \in DOMAIN image |-> image[p][channel]]

\* image.convert(mode='1', dither=Image.NONE): the upper half of the values is 255
Convert1(image) == [p \in DOMAIN image |-> IF image[p] >= 128 THEN 255 ELSE 0]

\* image.rotate(180)
Rotate180(image, w, h) == [p \in DOMAIN image |-> image[<<w - 1 - p[1], h - 1 - p[2]>>]]

\* a bug to compare with: the image of a band that is not turned
PlaneOf_Mut(image, channel, w, h) == Convert1(GetChannel(image, channel))

\* self.canvas.getchannel(channel=...).convert(mode='1', dither=Image.NONE).rotate(180)
PlaneOf(image, channel, w, h) == Rotate180(Convert1(GetChannel(image, channel)), w, h)

\* Clock.__init__: the size, turned for portrait, and a white canvas
PlaneInit ==
    \E size \in (1..MaxW) \X (1..MaxH), portrait \in BOOLEAN :
        /\ width = (IF portrait THEN size[2] ELSE size[1])
        /\ height = (IF portrait THEN size[1] ELSE size[2])
        /\ canvas = ImageNew(width, height, WHITE)
        /\ redimage = <<>>
        /\ blackimage = <<>>

\* self.draw.text(..., fill=...): the places a text covers take its colour.  What
\* places a text covers follows from the font; any rectangle stands for them.
DrawText ==
    /\ redimage = <<>>
    /\ \E fill \in {RED, BLUE}, x0 \in 0..(width - 1), y0 \in 0..(height - 1) :
         \E x1 \in x0..(width - 1), y1 \in y0..(height - 1) :
            canvas' = [p \in DOMAIN canvas |->
                          IF p[1] \in x0..x1 /\ p[2] \in y0..y1 THEN fill ELSE canvas[p]]
    /\ UNCHANGED <<width, height, redimage, blackimage, procVars, calVars>>

\* EPD_Clock.display: the two images handed to epd.display
PlaneDisplay ==
    /\ redimage = <<>>
    /\ redimage' = PlaneOf(canvas, "R", width, height)
    /\ blackimage' = PlaneOf(canvas, "B", width, height)
    /\ UNCHANGED <<width, height, canvas, procVars, calVars>>

InitPlane == ProcInit /\ CalNone /\ PlaneInit

NextPlane == DrawText \/ PlaneDisplay

SpecPlane == InitPlane /\ [][NextPlane]_vars

(***************************************************************************)
(* The claim on the two images.                                            *)
(***************************************************************************)
AllAre(image, bit) == \A p \in DOMAIN image : image[p] = bit

\* what the panel is handed for a canvas of the state's size that is all color
RedOf(color) == PlaneOf(ImageNew(width, height, color), "R", width, height)

BlackOf(color) == PlaneOf(ImageNew(width, height, color), "B", width, height)

\* C4: with one meaning of on and off for both images, a canvas all red gives
\* a red image all on and a black image all off, a canvas all blue gives a
\* black image all on and a red image all off, and a white canvas gives both
\* images all off.
C4_Original ==
    redimage # <<>> =>
        \E on \in {0, 255} :
            LET off == 255 - on
            IN  /\ AllAre(RedOf(RED), on) /\ AllAre(BlackOf(RED), off)
                /\ AllAre(BlackOf(BLUE), on) /\ AllAre(RedOf(BLUE), off)
                /\ AllAre(RedOf(WHITE), off) /\ AllAre(BlackOf(WHITE), off)

\* C4, as the program has it: the red image of a displayed canvas has 255 where
\* the red band is in its upper half and the black image where the blue band is,
\* each turned by 180 degrees; so white gives 255 in both images, red only in
\* the red image and blue only in the black image.
C4_Planes ==
    redimage # <<>> =>
        /\ \A p \in DOMAIN canvas :
              LET q == <<width - 1 - p[1], height - 1 - p[2]>>
              IN  /\ redimage[q] = (IF canvas[p] \in {RED, WHITE} THEN 255 ELSE 0)
                  /\ blackimage[q] = (IF canvas[p] \in {BLUE, WHITE} THEN 255 ELSE 0)
        /\ DOMAIN redimage = DOMAIN canvas
        /\ DOMAIN blackimage = DOMAIN canvas

\* C4 is reached when a canvas of several pixels, red but for a blue one in a
\* corner, is displayed
C4_Witness ==
    /\ redimage # <<>>
    /\ width * height > 1
    /\ canvas[<<0, 0>>] = BLUE
    /\ \A p \in DOMAIN canvas : p # <<0, 0>> => canvas[p] = RED
    /\ blackimage[<<width - 1, height - 1>>] = 255

=============================================================================
